---- MODULE Spec2Model ----
(***************************************************************************)
(* A model of src/index.js: the interactive driver (main), the token store *)
(* (loadToken), the fetch client (fetchAlignedWords), the two converters   *)
(* (convertToSRT, convertToLRC) and the file writer (saveFile).            *)
(*                                                                         *)
(* Text is a sequence of one-character strings, so that trim, split,       *)
(* toLowerCase and the line structure of a subtitle document are computed  *)
(* the way the code computes them.  The program has one thread of control; *)
(* pc is its position, and every action is the code that runs between two  *)
(* awaits (a prompt that is answered, a request that completes).           *)
(***************************************************************************)
EXTENDS Integers, Sequences, FiniteSets, TLC

VARIABLES
    pc,          \* position of the thread of control
    tokenFile,   \* token.txt: [exists, content]
    tokenWrites, \* history: the fs.writeFileSync(TOKEN_FILE, ..) calls made, by site
    saved,       \* loadToken's local `saved`
    ltToken,     \* loadToken's local `token`
    token,       \* main's `token`, the value loadToken returned
    songIdsInput,\* main's `songIdsInput`, the raw answer
    songIds,     \* main's `songIds`
    idx,         \* position of the for-of loop in songIds
    fileType,    \* main's `fileType`
    inFlight,    \* number of axios requests issued and not yet completed
    fetches,     \* history: the fetchAlignedWords calls, [songId, token], at issue
    results,     \* history: per completed call, [response, outcome]
    outputDir,   \* whether <cwd>/output exists
    files,       \* the files of <cwd>/output: set of [name, content]
    saves,       \* history: the saveFile calls that wrote, [entry, songId, name]
    clock,       \* the last reading of the wall clock, in ms
    log,         \* history: console output, [msg, id]
    cvPc,        \* converter harness: "input" or "done"
    cvWords,     \* converter harness: the input sequence
    cvSRT,       \* converter harness: convertToSRT(cvWords)
    cvLRC,       \* converter harness: convertToLRC(cvWords)
    fxPc,        \* fetch harness: "request" or "done"
    fxResp,      \* fetch harness: what the remote does
    fxOut        \* fetch harness: fetchAlignedWords on fxResp

driverVars == <<pc, tokenFile, tokenWrites, saved, ltToken, token, songIdsInput,
                songIds, idx, fileType, inFlight, fetches, results, outputDir,
                files, saves, clock, log>>
cvVars == <<cvPc, cvWords, cvSRT, cvLRC>>
fxVars == <<fxPc, fxResp, fxOut>>
vars == <<driverVars, cvVars, fxVars>>

(***************************************************************************)
(* Bounds of the model.                                                    *)
(***************************************************************************)
\* ms that may pass between two readings of the wall clock: 0 .. MaxElapsed
MaxElapsed == 1
\* longest input sequence given to the converters in ConvSpec
MaxWords == 2

(***************************************************************************)
(* Text helpers: String.prototype.trim, toLowerCase, split(','),           *)
(* String(n), padStart.                                                    *)
(***************************************************************************)
Whitespace == {" ", "\n", "\t"}

RECURSIVE TrimStart(_)
TrimStart(s) ==
    IF s # <<>> /\ Head(s) \in Whitespace THEN TrimStart(Tail(s)) ELSE s

RECURSIVE TrimEnd(_)
TrimEnd(s) ==
    IF s # <<>> /\ s[Len(s)] \in Whitespace
    THEN TrimEnd(SubSeq(s, 1, Len(s) - 1))
    ELSE s

Trim(s) == TrimEnd(TrimStart(s))

ToLowerChar(c) ==
    CASE c = "N" -> "n"
      [] c = "S" -> "s"
      [] c = "R" -> "r"
      [] c = "T" -> "t"
      [] c = "Y" -> "y"
      [] OTHER -> c

ToLowerCase(s) == [i \in 1..Len(s) |-> ToLowerChar(s[i])]

\* s.split(','): the pieces between commas; always at least one piece
RECURSIVE SplitFrom(_, _)
SplitFrom(s, piece) ==
    IF s = <<>> THEN <<piece>>
    ELSE IF Head(s) = "," THEN <<piece>> \o SplitFrom(Tail(s), <<>>)
    ELSE SplitFrom(Tail(s), Append(piece, Head(s)))

SplitComma(s) == SplitFrom(s, <<>>)

\* .filter(Boolean) on a list of strings: the empty string is falsy
RECURSIVE FilterNonEmpty(_)
FilterNonEmpty(l) ==
    IF l = <<>> THEN <<>>
    ELSE IF Head(l) = <<>> THEN FilterNonEmpty(Tail(l))
    ELSE <<Head(l)>> \o FilterNonEmpty(Tail(l))

DigitChars == <<"0", "1", "2", "3", "4", "5", "6", "7", "8", "9">>

\* String(n) for a natural number n
RECURSIVE NatToChars(_)
NatToChars(n) ==
    IF n < 10 THEN <<DigitChars[n + 1]>>
    ELSE NatToChars(n \div 10) \o <<DigitChars[(n % 10) + 1]>>

RECURSIVE Zeros(_)
Zeros(k) == IF k <= 0 THEN <<>> ELSE <<"0">> \o Zeros(k - 1)

\* String(n).padStart(width, '0')
PadStart(n, width) == Zeros(width - Len(NatToChars(n))) \o NatToChars(n)

(***************************************************************************)
(* Aligned words.  A word is [word, start_s, end_s]; word is text, and a   *)
(* time in seconds is given as a whole number of 1/10000 s, so that        *)
(* seconds * 1000 can have a fractional part for setMilliseconds to drop.  *)
(* Times are finite and not negative.                                      *)
(***************************************************************************)

\* Date(0).setMilliseconds(seconds * 1000): the time value, in whole ms
DateMs(seconds) == seconds \div 10

formatSRTTime(seconds) ==
    LET ms == DateMs(seconds)
        hours == (ms \div 3600000) % 24
        minutes == (ms \div 60000) % 60
        secs == (ms \div 1000) % 60
        milliseconds == ms % 1000
    IN  PadStart(hours, 2) \o <<":">> \o PadStart(minutes, 2) \o <<":">>
            \o PadStart(secs, 2) \o <<",">> \o PadStart(milliseconds, 3)

formatLRCTime(seconds) ==
    LET ms == DateMs(seconds)
        minutes == (ms \div 60000) % 60
        secs == (ms \div 1000) % 60
        hundredths == (ms % 1000) \div 10
    IN  <<"[">> \o PadStart(minutes, 2) \o <<":">> \o PadStart(secs, 2)
            \o <<".">> \o PadStart(hundredths, 2) \o <<"]">>

\* the text one forEach step of convertToSRT appends for word w at index i
srtBlock(w, i) ==
    NatToChars(i + 1) \o <<"\n">>
        \o formatSRTTime(w.start_s) \o <<" ", "-", "-", ">", " ">>
        \o formatSRTTime(w.end_s) \o <<"\n">>
        \o w.word \o <<"\n", "\n">>

\* the text one forEach step of convertToLRC appends for word w
lrcLine(w) == formatLRCTime(w.start_s) \o w.word \o <<"\n">>

RECURSIVE srtFrom(_, _)
srtFrom(alignedWords, i) ==
    IF i >= Len(alignedWords) THEN <<>>
    ELSE srtBlock(alignedWords[i + 1], i) \o srtFrom(alignedWords, i + 1)

RECURSIVE lrcFrom(_, _)
lrcFrom(alignedWords, i) ==
    IF i >= Len(alignedWords) THEN <<>>
    ELSE lrcLine(alignedWords[i + 1]) \o lrcFrom(alignedWords, i + 1)

convertToSRT(alignedWords) == srtFrom(alignedWords, 0)

\* convertToLRC with words of empty text left out
RECURSIVE lrcFromSkipEmpty(_, _)
lrcFromSkipEmpty(alignedWords, i) ==
    IF i >= Len(alignedWords) THEN <<>>
    ELSE (IF alignedWords[i + 1].word = <<>> THEN <<>>
          ELSE lrcLine(alignedWords[i + 1]))
             \o lrcFromSkipEmpty(alignedWords, i + 1)

convertToLRCSkipEmpty(alignedWords) == lrcFromSkipEmpty(alignedWords, 0)

convertToLRC(alignedWords) == lrcFrom(alignedWords, 0)

(***************************************************************************)
(* The fetch client.  A remote outcome is either a network error (no       *)
(* response) or an HTTP response with a status and, in its body, the value *)
(* of the field aligned_words.  JSON values are [t, v]: t is the type and  *)
(* v the content (an array of aligned words, the text of a string).        *)
(***************************************************************************)
JUndefined == [t |-> "undefined", v |-> <<>>]
JNull == [t |-> "null", v |-> <<>>]
JArray(ws) == [t |-> "array", v |-> ws]
JString(s) == [t |-> "string", v |-> s]

\* JavaScript truthiness of a value: an array, even empty, is truthy
Truthy(j) ==
    CASE j.t = "array" -> TRUE
      [] j.t = "string" -> j.v # <<>>
      [] OTHER -> FALSE

NetworkError == [response |-> FALSE, status |-> 0, aligned_words |-> JUndefined]
Http(status, aw) == [response |-> TRUE, status |-> status, aligned_words |-> aw]

\* axios.get with the default validateStatus: the promise resolves for a 2xx
\* status and rejects otherwise; err.response is set when a response arrived
axiosGet(resp) ==
    IF resp.response /\ resp.status >= 200 /\ resp.status < 300
    THEN [resolved |-> TRUE, hasResponse |-> TRUE, status |-> resp.status,
          aligned_words |-> resp.aligned_words]
    ELSE [resolved |-> FALSE, hasResponse |-> resp.response, status |-> resp.status,
          aligned_words |-> JUndefined]

\* fetchAlignedWords with a 401 handled like every other rejection
fetchAlignedWordsSoft401(resp) ==
    LET res == axiosGet(resp) IN
    IF res.resolved /\ Truthy(res.aligned_words)
    THEN [threw |-> FALSE, message |-> "", value |-> res.aligned_words,
          logged |-> FALSE]
    ELSE [threw |-> FALSE, message |-> "", value |-> JNull,
          logged |-> ~res.resolved]

\* The outcome of fetchAlignedWords on a remote outcome: what it throws or
\* returns, and whether it wrote its console.error line.
fetchAlignedWords(resp) ==
    LET res == axiosGet(resp) IN
    IF res.resolved
    THEN IF Truthy(res.aligned_words)
         THEN [threw |-> FALSE, message |-> "", value |-> res.aligned_words,
               logged |-> FALSE]
         ELSE [threw |-> FALSE, message |-> "", value |-> JNull, logged |-> FALSE]
    ELSE IF res.hasResponse /\ res.status = 401
         THEN [threw |-> TRUE, message |-> "TOKEN_INVALID", value |-> JNull,
               logged |-> FALSE]
         ELSE [threw |-> FALSE, message |-> "", value |-> JNull, logged |-> TRUE]

(***************************************************************************)
(* The file writer.                                                        *)
(***************************************************************************)
\* new Date(ms).toISOString(), for a time of day on the first day of the epoch
toISOString(ms) ==
    <<"1970-01-01T">> \o PadStart((ms \div 3600000) % 24, 2) \o <<":">>
        \o PadStart((ms \div 60000) % 60, 2) \o <<":">>
        \o PadStart((ms \div 1000) % 60, 2) \o <<".">>
        \o PadStart(ms % 1000, 3) \o <<"Z">>

\* s.replace(/[:.]/g, '-')
ReplaceColonDot(s) ==
    [i \in 1..Len(s) |-> IF s[i] \in {":", "."} THEN "-" ELSE s[i]]

fileName(songId, now, type) ==
    <<"aligned_words_">> \o songId \o <<"_">> \o ReplaceColonDot(toISOString(now))
        \o <<".", type>>

\* fs.writeFileSync(filePath, content): the file is created or replaced
WriteFile(fs, name, content) ==
    {f \in fs : f.name # name} \cup {[name |-> name, content |-> content]}

\* saveFile at wall-clock time `now`; writeOk is whether the file system
\* accepts the write (writeFileSync throws when it does not)
saveFile(content, type, songId, now, writeOk, fs) ==
    LET name == fileName(songId, now, type) IN
    IF writeOk
    THEN [threw |-> FALSE, name |-> name, files |-> WriteFile(fs, name, content)]
    ELSE [threw |-> TRUE, name |-> name, files |-> fs]

(***************************************************************************)
(* Inputs: what the user may answer and what the remote may do.            *)
(***************************************************************************)
\* the token file before the program starts: absent, blank, a token
InitialTokenFiles ==
    { [exists |-> FALSE, content |-> <<>>],
      [exists |-> TRUE, content |-> <<" ", "\n">>],
      [exists |-> TRUE, content |-> <<"s", "\n">>] }

\* answers to 'Enter song IDs (comma-separated): '
IdInputs ==
    { <<>>,
      <<"a">>,
      <<"a", ",", "a">>,
      <<" ", "a", " ", ",", " ", ",", "b">> }

\* answers to 'Enter file type (lrc or srt, default lrc): '
TypeAnswers == { <<"S", "R", "T">>, <<"l", "r", "c">>, <<>> }

\* answers to 'Use this token? (Y/n): '
ChoiceAnswers == { <<"n">>, <<"N">>, <<"y">>, <<>> }

\* answers to the prompts for a Bearer token
TokenAnswers == { <<"p">>, <<" ", "q", " ">>, <<>> }

Word1 == [word |-> <<"h", "i">>, start_s |-> 15000, end_s |-> 20000]

\* what the remote may do with a request for a song
SongResponses ==
    { NetworkError,
      Http(401, JUndefined),
      Http(200, JUndefined),
      Http(200, JArray(<<>>)),
      Http(200, JArray(<<Word1>>)),
      Http(200, JString(<<"x">>)) }

\* what the remote may do with the validation probe
ProbeResponses == { Http(401, JUndefined), Http(404, JUndefined) }

\* the sentinel identifier of the validation probe
DummyCheck == <<"dummy-check">>

(***************************************************************************)
(* The token store and the driver.                                         *)
(***************************************************************************)
Line(m, id, entry) == [msg |-> m, id |-> id, entry |-> entry]

\* fs.writeFileSync(TOKEN_FILE, content); writes of the token file, like the
\* prompts and the console, are taken to succeed
writeTokenFile(content) == [exists |-> TRUE, content |-> content]

\* parseSongIds without the .filter(Boolean)
parseSongIdsKeepEmpty(input) ==
    LET pieces == SplitComma(input) IN
    [i \in 1..Len(pieces) |-> Trim(pieces[i])]

\* songIdsInput.split(',').map(s => s.trim()).filter(Boolean)
parseSongIds(input) ==
    LET pieces == SplitComma(input) IN
    FilterNonEmpty([i \in 1..Len(pieces) |-> Trim(pieces[i])])

\* (fileType.toLowerCase() === 'srt') ? 'srt' : 'lrc'
parseFileType(answer) ==
    IF ToLowerCase(answer) = <<"s", "r", "t">> THEN "srt" ELSE "lrc"

\* choice.toLowerCase() === 'n'
declined(choice) == ToLowerCase(choice) = <<"n">>

\* loadToken returning the token as entered
loadTokenReturnRaw(t) == t

\* `return token.trim()` of loadToken
loadTokenReturn(t) == Trim(t)

\* (fileType === 'srt') ? convertToSRT(words) : convertToLRC(words); forEach
\* exists on arrays only, so any other truthy value makes the call throw
convert(type, words) ==
    IF words.t = "array"
    THEN [threw |-> FALSE,
          content |-> IF type = "srt" THEN convertToSRT(words.v)
                      ELSE convertToLRC(words.v)]
    ELSE [threw |-> TRUE, content |-> <<>>]

\* The try block of main's loop for the entry at position `entry`, given the
\* outcome r of its fetch: what it logs, saves and throws.
tryBody(r, entry, songId, type, now, writeOk, fs) ==
    LET errLine == IF r.logged THEN <<Line("Error fetching song", songId, entry)>>
                   ELSE <<>>
        quiet == [threw |-> FALSE, message |-> "", logs |-> errLine, files |-> fs,
                  saved |-> <<>>, readClock |-> FALSE, kind |-> "noWords"]
    IN
    IF r.threw
    THEN [quiet EXCEPT !.threw = TRUE, !.message = r.message, !.kind = "auth"]
    ELSE IF ~Truthy(r.value)
    THEN [quiet EXCEPT !.logs = errLine \o <<Line("No words", songId, entry)>>]
    ELSE LET conv == convert(type, r.value) IN
         IF conv.threw
         THEN [quiet EXCEPT !.threw = TRUE, !.message = "TypeError",
                            !.kind = "convertThrew"]
         ELSE LET sv == saveFile(conv.content, type, songId, now, writeOk, fs) IN
              IF sv.threw
              THEN [quiet EXCEPT !.threw = TRUE, !.message = "EACCES",
                                 !.readClock = TRUE, !.kind = "saveThrew"]
              ELSE [quiet EXCEPT !.files = sv.files, !.readClock = TRUE,
                                 !.logs = <<Line("Saved", songId, entry)>>,
                                 !.saved = <<[entry |-> entry, songId |-> songId,
                                              name |-> sv.name]>>,
                                 !.kind = "saved"]

\* the catch block without its break
mainCatchNoBreak(message, entry, tf) ==
    IF message = "TOKEN_INVALID"
    THEN [next |-> "continue",
          logs |-> <<Line("Your token is invalid", <<>>, entry)>>,
          tokenFile |-> tf, wrote |-> <<>>]
    ELSE [next |-> "continue", logs |-> <<>>, tokenFile |-> tf, wrote |-> <<>>]

\* the catch block clearing the rejected token from the token file
mainCatchClearToken(message, entry, tf) ==
    IF message = "TOKEN_INVALID"
    THEN [next |-> "break", logs |-> <<Line("Your token is invalid", <<>>, entry)>>,
          tokenFile |-> writeTokenFile(<<>>), wrote |-> <<"clear">>]
    ELSE [next |-> "continue", logs |-> <<>>, tokenFile |-> tf, wrote |-> <<>>]

\* the catch block passing on every error it does not know
mainCatchRethrow(message, entry, tf) ==
    IF message = "TOKEN_INVALID"
    THEN [next |-> "break", logs |-> <<Line("Your token is invalid", <<>>, entry)>>,
          tokenFile |-> tf, wrote |-> <<>>]
    ELSE [next |-> "throw", logs |-> <<>>, tokenFile |-> tf, wrote |-> <<>>]

\* The catch block of main's loop: what it logs, what it does to the token
\* file, and how the loop goes on ("break", "continue", or "throw" when the
\* error leaves the block).
mainCatch(message, entry, tf) ==
    IF message = "TOKEN_INVALID"
    THEN [next |-> "break", logs |-> <<Line("Your token is invalid", <<>>, entry)>>,
          tokenFile |-> tf, wrote |-> <<>>]
    ELSE [next |-> "continue", logs |-> <<>>, tokenFile |-> tf, wrote |-> <<>>]

(***************************************************************************)
(* Initial state: the process has started and no line has run.             *)
(***************************************************************************)
cvIdle ==
    /\ cvPc = "idle"
    /\ cvWords = <<>>
    /\ cvSRT = <<>>
    /\ cvLRC = <<>>

fxIdle ==
    /\ fxPc = "idle"
    /\ fxResp = NetworkError
    /\ fxOut = fetchAlignedWords(NetworkError)

driverIdle ==
    /\ pc = "module"
    /\ tokenFile = [exists |-> FALSE, content |-> <<>>]
    /\ tokenWrites = <<>>
    /\ saved = <<>>
    /\ ltToken = <<>>
    /\ token = <<>>
    /\ songIdsInput = <<>>
    /\ songIds = <<>>
    /\ idx = 1
    /\ fileType = "lrc"
    /\ inFlight = 0
    /\ fetches = <<>>
    /\ results = <<>>
    /\ outputDir = FALSE
    /\ files = {}
    /\ saves = <<>>
    /\ clock = 0
    /\ log = <<>>

Init ==
    /\ pc = "module"
    /\ tokenFile \in InitialTokenFiles
    /\ tokenWrites = <<>>
    /\ saved = <<>>
    /\ ltToken = <<>>
    /\ token = <<>>
    /\ songIdsInput = <<>>
    /\ songIds = <<>>
    /\ idx = 1
    /\ fileType = "lrc"
    /\ inFlight = 0
    /\ fetches = <<>>
    /\ results = <<>>
    /\ outputDir = FALSE
    /\ files = {}
    /\ saves = <<>>
    /\ clock = 0
    /\ log = <<>>
    /\ cvIdle
    /\ fxIdle

(***************************************************************************)
(* Module top level (lines 12-15), then main up to its first prompt.       *)
(***************************************************************************)
ModuleInit ==
    /\ pc = "module"
    /\ IF ~tokenFile.exists
       THEN /\ tokenFile' = writeTokenFile(<<>>)
            /\ tokenWrites' = Append(tokenWrites, "create")
            /\ log' = Append(log, Line("Created empty token.txt", <<>>, 0))
       ELSE UNCHANGED <<tokenFile, tokenWrites, log>>
    /\ pc' = "askIds"
    /\ UNCHANGED <<saved, ltToken, token, songIdsInput, songIds, idx, fileType,
                   inFlight, fetches, results, outputDir, files, saves, clock>>
    /\ UNCHANGED <<cvVars, fxVars>>

\* the song-ID prompt is answered (lines 151-154)
AskIds ==
    /\ pc = "askIds"
    /\ \E input \in IdInputs :
         /\ songIdsInput' = input
         /\ songIds' = parseSongIds(input)
    /\ pc' = "askType"
    /\ UNCHANGED <<tokenFile, tokenWrites, saved, ltToken, token, idx, fileType,
                   inFlight, fetches, results, outputDir, files, saves, clock, log>>
    /\ UNCHANGED <<cvVars, fxVars>>

\* the file-type prompt is answered (lines 154-157), and loadToken runs up to
\* its first prompt (lines 109-115, 128-129)
AskType ==
    /\ pc = "askType"
    /\ \E answer \in TypeAnswers : fileType' = parseFileType(answer)
    /\ LET content == IF tokenFile.exists THEN Trim(tokenFile.content) ELSE <<>> IN
       IF tokenFile.exists /\ content # <<>>
       THEN /\ saved' = content
            /\ log' = Append(log, Line("Found saved token", <<>>, 0))
            /\ pc' = "askUse"
       ELSE /\ pc' = "askEnter"
            /\ UNCHANGED <<saved, log>>
    /\ UNCHANGED <<tokenFile, tokenWrites, ltToken, token, songIdsInput, songIds,
                   idx, inFlight, fetches, results, outputDir, files, saves, clock>>
    /\ UNCHANGED <<cvVars, fxVars>>

\* 'Use this token? (Y/n): ' is answered (lines 115-124, 128, 136)
AskUse ==
    /\ pc = "askUse"
    /\ \E choice \in ChoiceAnswers :
         IF declined(choice)
         THEN /\ pc' = "askNew"
              /\ UNCHANGED <<ltToken, log>>
         ELSE /\ ltToken' = saved
              /\ log' = Append(log, Line("Using saved token", <<>>, 0))
              /\ pc' = "validate"
    /\ UNCHANGED <<tokenFile, tokenWrites, saved, token, songIdsInput, songIds, idx,
                   fileType, inFlight, fetches, results, outputDir, files, saves,
                   clock>>
    /\ UNCHANGED <<cvVars, fxVars>>

\* 'Enter new Bearer token: ' is answered (lines 117-120): loadToken returns
AskNew ==
    /\ pc = "askNew"
    /\ \E answer \in TokenAnswers :
         /\ ltToken' = answer
         /\ tokenFile' = writeTokenFile(Trim(answer))
         /\ token' = loadTokenReturn(answer)
    /\ tokenWrites' = Append(tokenWrites, "new")
    /\ log' = Append(log, Line("New token saved", <<>>, 0))
    /\ pc' = "loop"
    /\ UNCHANGED <<saved, songIdsInput, songIds, idx, fileType, inFlight, fetches,
                   results, outputDir, files, saves, clock>>
    /\ UNCHANGED <<cvVars, fxVars>>

\* 'Enter Bearer token: ' is answered when nothing was saved (lines 129-132)
AskEnter ==
    /\ pc = "askEnter"
    /\ \E answer \in TokenAnswers :
         /\ ltToken' = answer
         /\ tokenFile' = writeTokenFile(Trim(answer))
    /\ tokenWrites' = Append(tokenWrites, "initial")
    /\ log' = Append(log, Line("Token saved for future runs", <<>>, 0))
    /\ pc' = "validate"
    /\ UNCHANGED <<saved, token, songIdsInput, songIds, idx, fileType, inFlight,
                   fetches, results, outputDir, files, saves, clock>>
    /\ UNCHANGED <<cvVars, fxVars>>

\* the validation probe is issued (line 136)
ProbeStart ==
    /\ pc = "validate"
    /\ fetches' = Append(fetches, [songId |-> DummyCheck, token |-> ltToken,
                                   entry |-> 0])
    /\ inFlight' = inFlight + 1
    /\ pc' = "probing"
    /\ UNCHANGED <<tokenFile, tokenWrites, saved, ltToken, token, songIdsInput,
                   songIds, idx, fileType, results, outputDir, files, saves, clock,
                   log>>
    /\ UNCHANGED <<cvVars, fxVars>>

\* the probe completes (lines 136-146)
ProbeReturn ==
    /\ pc = "probing"
    /\ \E resp \in ProbeResponses :
         LET r == fetchAlignedWords(resp)
             errLine == IF r.logged
                        THEN <<Line("Error fetching song", DummyCheck, 0)>>
                        ELSE <<>>
         IN  /\ results' = Append(results, [entry |-> 0, response |-> resp,
                                            outcome |-> r, kind |-> "probe"])
             /\ IF r.threw /\ r.message = "TOKEN_INVALID"
                THEN /\ log' = log \o errLine
                                   \o <<Line("Token expired or invalid", <<>>, 0)>>
                     /\ pc' = "askAgain"
                     /\ UNCHANGED token
                ELSE /\ log' = log \o errLine
                     /\ token' = loadTokenReturn(ltToken)
                     /\ pc' = "loop"
    /\ inFlight' = inFlight - 1
    /\ UNCHANGED <<tokenFile, tokenWrites, saved, ltToken, songIdsInput, songIds,
                   idx, fileType, fetches, outputDir, files, saves, clock>>
    /\ UNCHANGED <<cvVars, fxVars>>

\* 'Enter Bearer token: ' is answered after a rejected probe (lines 140-146)
AskAgain ==
    /\ pc = "askAgain"
    /\ \E answer \in TokenAnswers :
         /\ ltToken' = answer
         /\ tokenFile' = writeTokenFile(Trim(answer))
         /\ token' = loadTokenReturn(answer)
    /\ tokenWrites' = Append(tokenWrites, "replace")
    /\ log' = Append(log, Line("Token saved", <<>>, 0))
    /\ pc' = "loop"
    /\ UNCHANGED <<saved, songIdsInput, songIds, idx, fileType, inFlight, fetches,
                   results, outputDir, files, saves, clock>>
    /\ UNCHANGED <<cvVars, fxVars>>

(***************************************************************************)
(* The loop of main.                                                       *)
(***************************************************************************)
\* the next entry's fetch is issued (lines 159-162)
LoopFetch ==
    /\ pc = "loop"
    /\ idx \in DOMAIN songIds
    /\ log' = Append(log, Line("Fetching aligned words", songIds[idx], idx))
    /\ fetches' = Append(fetches, [songId |-> songIds[idx], token |-> token,
                                   entry |-> idx])
    /\ inFlight' = inFlight + 1
    /\ pc' = "fetching"
    /\ UNCHANGED <<tokenFile, tokenWrites, saved, ltToken, token, songIdsInput,
                   songIds, idx, fileType, results, outputDir, files, saves, clock>>
    /\ UNCHANGED <<cvVars, fxVars>>

\* the fetch completes; the rest of the iteration runs (lines 162-174)
FetchReturn ==
    /\ pc = "fetching"
    /\ \E resp \in SongResponses, elapsed \in 0..MaxElapsed, writeOk \in BOOLEAN :
         LET r == fetchAlignedWords(resp)
             body == tryBody(r, idx, songIds[idx], fileType, clock + elapsed,
                             writeOk, files)
             caught == IF body.threw
                       THEN mainCatch(body.message, idx, tokenFile)
                       ELSE [next |-> "continue", logs |-> <<>>,
                             tokenFile |-> tokenFile, wrote |-> <<>>]
         IN  /\ results' = Append(results, [entry |-> idx, response |-> resp,
                                            outcome |-> r, kind |-> body.kind])
             /\ log' = log \o body.logs \o caught.logs
             /\ files' = body.files
             /\ outputDir' = (outputDir \/ body.readClock)
             /\ saves' = saves \o body.saved
             /\ clock' = IF body.readClock THEN clock + elapsed ELSE clock
             /\ tokenFile' = caught.tokenFile
             /\ tokenWrites' = tokenWrites \o caught.wrote
             /\ pc' = CASE caught.next = "break" -> "afterLoop"
                        [] caught.next = "continue" -> "loop"
                        [] OTHER -> "crashed"
             /\ idx' = IF caught.next = "continue" THEN idx + 1 ELSE idx
    /\ inFlight' = inFlight - 1
    /\ UNCHANGED <<saved, ltToken, token, songIdsInput, songIds, fileType, fetches>>
    /\ UNCHANGED <<cvVars, fxVars>>

\* the loop is over, by exhaustion or by break (line 177)
AllDone ==
    /\ \/ pc = "afterLoop"
       \/ pc = "loop" /\ idx \notin DOMAIN songIds
    /\ log' = Append(log, Line("All done!", <<>>, 0))
    /\ pc' = "done"
    /\ UNCHANGED <<tokenFile, tokenWrites, saved, ltToken, token, songIdsInput,
                   songIds, idx, fileType, inFlight, fetches, results, outputDir,
                   files, saves, clock>>
    /\ UNCHANGED <<cvVars, fxVars>>

Next ==
    \/ ModuleInit
    \/ AskIds
    \/ AskType
    \/ AskUse
    \/ AskNew
    \/ AskEnter
    \/ ProbeStart
    \/ ProbeReturn
    \/ AskAgain
    \/ LoopFetch
    \/ FetchReturn
    \/ AllDone

Spec == Init /\ [][Next]_vars

\* every prompt is answered and every request completes
FairSpec == Spec /\ WF_vars(Next)

(***************************************************************************)
(* The converters on their own: ConvSpec gives convertToSRT and            *)
(* convertToLRC every sequence of at most MaxWords aligned words.          *)
(***************************************************************************)
WordTexts == { <<"a">>, <<>>, <<"a", "\n", "b">> }

\* 0 s, 1.5 s, and 24 h + 0.5 ms
StartTimes == { 0, 15000, 864000005 }

\* 2 s and 1.5004 s
EndTimes == { 20000, 15004 }

AlignedWords == [word : WordTexts, start_s : StartTimes, end_s : EndTimes]

RECURSIVE SeqsUpTo(_, _)
SeqsUpTo(S, n) ==
    IF n = 0 THEN {<<>>}
    ELSE LET shorter == SeqsUpTo(S, n - 1) IN
         shorter \cup {Append(q, x) : q \in {p \in shorter : Len(p) = n - 1}, x \in S}

ConvInit ==
    /\ driverIdle
    /\ fxIdle
    /\ cvPc = "input"
    /\ cvWords \in SeqsUpTo(AlignedWords, MaxWords)
    /\ cvSRT = <<>>
    /\ cvLRC = <<>>

Convert ==
    /\ cvPc = "input"
    /\ cvSRT' = convertToSRT(cvWords)
    /\ cvLRC' = convertToLRC(cvWords)
    /\ cvPc' = "done"
    /\ UNCHANGED cvWords
    /\ UNCHANGED <<driverVars, fxVars>>

ConvNext == Convert

ConvSpec == ConvInit /\ [][ConvNext]_vars

(***************************************************************************)
(* The fetch client on its own: FetchSpec gives fetchAlignedWords every    *)
(* remote outcome of a set of statuses and bodies.                         *)
(***************************************************************************)
Statuses == { 200, 201, 204, 299, 300, 304, 400, 401, 403, 404, 429, 500, 503 }

FieldValues ==
    { JUndefined, JNull, JString(<<>>), JString(<<"x">>), JArray(<<>>),
      JArray(<<Word1>>), JArray(<<Word1, Word1>>), JArray(<<[Word1 EXCEPT !.word = <<>>]>>) }

RemoteOutcomes == {NetworkError} \cup {Http(st, aw) : st \in Statuses, aw \in FieldValues}

FetchInit ==
    /\ driverIdle
    /\ cvIdle
    /\ fxPc = "request"
    /\ fxResp \in RemoteOutcomes
    /\ fxOut = fetchAlignedWords(NetworkError)

Fetch ==
    /\ fxPc = "request"
    /\ fxOut' = fetchAlignedWords(fxResp)
    /\ fxPc' = "done"
    /\ UNCHANGED fxResp
    /\ UNCHANGED <<driverVars, cvVars>>

FetchNext == Fetch

FetchSpec == FetchInit /\ [][FetchNext]_vars

(***************************************************************************)
(* Reading a document back: its lines, and the number on an index line.    *)
(***************************************************************************)
\* the lines of a text, each ended by a line break (a last line may lack it)
LineBreaks(s) == {i \in 1..Len(s) : s[i] = "\n"}

LineEnds(s) ==
    LineBreaks(s) \cup (IF s # <<>> /\ s[Len(s)] # "\n" THEN {Len(s) + 1} ELSE {})

Lines(s) ==
    [k \in 1..Cardinality(LineEnds(s)) |->
        LET e == CHOOSE x \in LineEnds(s) :
                     Cardinality({y \in LineEnds(s) : y < x}) = k - 1
            before == {y \in LineBreaks(s) : y < e}
            b == IF before = {} THEN 0
                 ELSE CHOOSE y \in before : \A z \in before : z <= y
        IN  SubSeq(s, b + 1, e - 1)]

IsDigit(c) == \E d \in 1..10 : DigitChars[d] = c

DigitValue(c) == (CHOOSE d \in 1..10 : DigitChars[d] = c) - 1

RECURSIVE ParseNat(_)
ParseNat(s) ==
    IF s = <<>> THEN 0
    ELSE 10 * ParseNat(SubSeq(s, 1, Len(s) - 1)) + DigitValue(s[Len(s)])

IsNumber(s) == s # <<>> /\ \A i \in 1..Len(s) : IsDigit(s[i])

NoLineBreak(ws) == \A i \in 1..Len(ws) : \A k \in 1..Len(ws[i].word) : ws[i].word[k] # "\n"

\* an LRC document of exactly one line per word of ws, the i-th line being a
\* ten-character [..] tag followed by the i-th word's text
OneLinePerWord(doc, ws) ==
    LET ls == Lines(doc) IN
    /\ Len(ls) = Len(ws)
    /\ \A i \in 1..Len(ws) :
         /\ Len(ls[i]) >= 10
         /\ ls[i][1] = "["
         /\ ls[i][10] = "]"
         /\ SubSeq(ls[i], 11, Len(ls[i])) = ws[i].word

\* an SRT document of exactly one block per word of ws: the i-th block is the
\* index line i, a timestamp line, the i-th word's text and a blank line
OneBlockPerWord(doc, ws) ==
    LET ls == Lines(doc) IN
    /\ Len(ls) = 4 * Len(ws)
    /\ \A i \in 1..Len(ws) :
         /\ IsNumber(ls[4 * i - 3])
         /\ ParseNat(ls[4 * i - 3]) = i
         /\ ls[4 * i - 1] = ws[i].word
         /\ ls[4 * i] = <<>>

UnitsPreserved ==
    /\ OneLinePerWord(cvLRC, cvWords)
    /\ OneBlockPerWord(cvSRT, cvWords)
    /\ (cvWords = <<>> => cvSRT = <<>> /\ cvLRC = <<>>)

\* C8 as stated: for every finite sequence of n aligned words, each converter
\* emits exactly n units (SRT blocks numbered 1..n, each ended by a blank
\* line; LRC lines), the i-th carrying the i-th word's text, and the empty
\* sequence gives the empty string.
C8_AsStated == cvPc = "done" => UnitsPreserved

\* C8 amended: the same, for every sequence whose word texts hold no line
\* break.
C8_UnitsPreserved == (cvPc = "done" /\ NoLineBreak(cvWords)) => UnitsPreserved

\* two equal words, one of them with an empty text, have been converted
C8_Witness ==
    /\ cvPc = "done"
    /\ Len(cvWords) = 2
    /\ NoLineBreak(cvWords)
    /\ cvWords[1] = cvWords[2]
    /\ Len(Lines(cvLRC)) = 2

(***************************************************************************)
(* Claims about the fetch client (FetchSpec).                              *)
(***************************************************************************)
Is401(resp) == resp.response /\ resp.status = 401

RaisesAuth(out) == out.threw /\ out.message = "TOKEN_INVALID"

ReturnsNull(out) == ~out.threw /\ out.value = JNull

ReturnsWords(out) == ~out.threw /\ out.value # JNull

\* the three-way classification, with `ok` the set of statuses that count as
\* the success status
Classified(resp, out, ok) ==
    /\ Is401(resp) => RaisesAuth(out)
    /\ (resp.response /\ resp.status \in ok /\ resp.aligned_words = JUndefined)
           => ReturnsNull(out)
    /\ (~resp.response \/ (resp.status \notin ok /\ resp.status # 401))
           => ReturnsNull(out)
    /\ ReturnsWords(out)
           => /\ resp.response
              /\ resp.status \in ok
              /\ resp.aligned_words # JUndefined
              /\ out.value = resp.aligned_words
    /\ (RaisesAuth(out) \/ ReturnsNull(out) \/ ReturnsWords(out))

\* C5 as stated: a 401 always raises TOKEN_INVALID; a 200 without the field
\* aligned_words returns null; any other failure (network error, other
\* non-200 status) returns null; only a 200 carrying aligned_words returns it.
C5_AsStated == fxPc = "done" => Classified(fxResp, fxOut, {200})

\* C5 amended: the same with "200" read as "any 2xx status", the statuses for
\* which the request's promise resolves.
C5_Classified == fxPc = "done" => Classified(fxResp, fxOut, 200..299)

\* a 401 has been classified
C5_Witness == fxPc = "done" /\ Is401(fxResp) /\ RaisesAuth(fxOut)

(***************************************************************************)
(* Claims about the driver and the token store (Spec, FairSpec).           *)
(***************************************************************************)
Returned == pc \in {"loop", "fetching", "afterLoop", "done"}

Count(q, P(_)) == Cardinality({i \in DOMAIN q : P(q[i])})

IsProbe(f) == f.entry = 0

IsSong(f) == f.entry > 0

AuthFailures == {k \in DOMAIN results : IsSong(results[k]) /\ Is401(results[k].response)}

\* C1: once a song's fetch fails with a 401, no fetch is issued and no file
\* is saved for that entry or any later one, and no entry is fetched twice.
C1_AbortOnAuthFailure ==
    /\ \A k \in AuthFailures :
         /\ k = Len(results)
         /\ Len(fetches) = Len(results)
         /\ fetches[Len(fetches)].entry = results[k].entry
         /\ \A i \in DOMAIN saves : saves[i].entry < results[k].entry
         /\ pc \in {"afterLoop", "done"}
    /\ \A i, j \in DOMAIN fetches :
         (i < j /\ IsSong(fetches[i])) => fetches[i].entry # fetches[j].entry

\* the first of two entries failed with a 401 and the run has ended
C1_Witness ==
    /\ pc = "done"
    /\ Len(songIds) = 2
    /\ \E k \in AuthFailures : results[k].entry = 1

\* C2 as stated: on every path through loadToken exactly one probe is made
\* before it returns; a probe answered 401 leads to exactly one re-prompt whose
\* value is persisted, and to no second probe.
C2_AsStated ==
    Returned =>
        /\ Count(fetches, IsProbe) = 1
        /\ \A k \in DOMAIN results :
             (IsProbe(results[k]) /\ Is401(results[k].response))
                 => /\ Count(tokenWrites, LAMBDA w : w = "replace") = 1
                    /\ tokenFile.content = Trim(ltToken)

\* C3 as stated: the token file is written at most twice in a run.
C3_AsStated == Len(tokenWrites) <= 2

\* C3 amended: the token file is written at most three times in a run: at
\* most once at start (the empty file), and at most twice by loadToken.
C3_AtMostThreeWrites ==
    /\ Len(tokenWrites) <= 3
    /\ Count(tokenWrites, LAMBDA w : w = "create") <= 1
    /\ Count(tokenWrites, LAMBDA w : w # "create") <= 2

\* a run that wrote the token file three times has ended
C3_Witness == pc = "done" /\ Len(tokenWrites) = 3

SoftFailures ==
    {k \in DOMAIN results : results[k].kind \in {"noWords", "convertThrew", "saveThrew"}}

Warned(entry) ==
    \E i \in DOMAIN log :
        /\ log[i].entry = entry
        /\ log[i].msg \in {"No words", "Error fetching song"}

\* C4 as stated: every failure of an entry other than a 401 (network error,
\* non-200, missing field, a payload that cannot be converted, a failing save)
\* logs a line for the entry, saves no file for it, and the loop goes on.
C4_AsStated ==
    \A k \in SoftFailures :
        /\ Warned(results[k].entry)
        /\ \A i \in DOMAIN saves : saves[i].entry # results[k].entry
        /\ idx > results[k].entry

\* C6 as stated: two saves for the same song identifier (and extension) in one
\* run get different file names, so both files exist afterwards.
C6_AsStated ==
    \A i, j \in DOMAIN saves :
        (i < j /\ saves[i].songId = saves[j].songId)
            => /\ saves[i].name # saves[j].name
               /\ \E f \in files : f.name = saves[i].name

AllDoneCount == Count(log, LAMBDA l : l.msg = "All done!")

\* C7: every run whose prompts are answered and whose requests complete
\* prints the completion message, exactly once, and after the last fetch and
\* save of the loop, whatever happened to each entry.
C7_Completion ==
    /\ <>(AllDoneCount = 1)
    /\ [](AllDoneCount <= 1)
    /\ []((AllDoneCount = 1) => (pc = "done" /\ inFlight = 0
                                   /\ log[Len(log)].msg = "All done!"))
    /\ [][(AllDoneCount = 1) => (fetches' = fetches /\ saves' = saves
                                   /\ files' = files)]_vars

\* a run in which a conversion or a save threw has printed the message
C7_Witness ==
    /\ pc = "done"
    /\ AllDoneCount = 1
    /\ \E k \in DOMAIN results : results[k].kind \in {"convertThrew", "saveThrew"}

\* The entries of the user's list, read off the raw answer by the positions of
\* its commas: the text between two neighbouring commas (or an end of the
\* answer), without its leading and trailing whitespace, when any is left.
Borders(s) == {0, Len(s) + 1} \cup {i \in 1..Len(s) : s[i] = ","}

PieceEnd(s, b) == CHOOSE e \in Borders(s) : e > b /\ \A c \in Borders(s) : c > b => e <= c

Inked(s, b) == {i \in (b + 1)..(PieceEnd(s, b) - 1) : s[i] \notin Whitespace}

EntryStarts(s) == {b \in Borders(s) \ {Len(s) + 1} : Inked(s, b) # {}}

Least(S) == CHOOSE x \in S : \A y \in S : x <= y

Greatest(S) == CHOOSE x \in S : \A y \in S : x >= y

EntriesOf(s) ==
    [k \in 1..Cardinality(EntryStarts(s)) |->
        LET b == CHOOSE c \in EntryStarts(s) :
                     Cardinality({d \in EntryStarts(s) : d < c}) = k - 1
        IN  SubSeq(s, Least(Inked(s, b)), Greatest(Inked(s, b)))]

SongFetches == {i \in DOMAIN fetches : IsSong(fetches[i])}

\* C9: the song fetches are, in order, a prefix of the trimmed non-empty
\* entries of the user's list, one per entry; none is issued before loadToken
\* has returned; at most one request is in flight; a file is saved for an entry
\* only after its fetch returned a non-null result and before the next fetch.
C9_Sequential ==
    /\ [](/\ Cardinality(SongFetches) <= Len(EntriesOf(songIdsInput))
          /\ \A i \in SongFetches :
               /\ fetches[i].entry = Cardinality({j \in SongFetches : j <= i})
               /\ fetches[i].songId = EntriesOf(songIdsInput)[fetches[i].entry]
               /\ \A j \in DOMAIN fetches : IsProbe(fetches[j]) => j < i
          /\ (SongFetches # {} => Returned)
          /\ inFlight \in {0, 1}
          /\ \A i \in DOMAIN saves :
               \E k \in DOMAIN results :
                   /\ results[k].entry = saves[i].entry
                   /\ ReturnsWords(results[k].outcome)
                   /\ saves[i].songId = EntriesOf(songIdsInput)[saves[i].entry])
    /\ [][(saves' # saves \/ files' # files)
              => /\ fetches' = fetches
                 /\ Len(saves') = Len(saves) + 1
                 /\ saves'[Len(saves')].entry = fetches[Len(fetches)].entry
                 /\ inFlight' = 0]_vars

\* both entries of ' a , ,b' were fetched, in order, and the second was saved
C9_Witness ==
    /\ pc = "done"
    /\ Len(EntriesOf(songIdsInput)) = 2
    /\ EntriesOf(songIdsInput)[1] # EntriesOf(songIdsInput)[2]
    /\ Cardinality(SongFetches) = 2
    /\ \E i \in DOMAIN saves : saves[i].entry = 2

\* C10: from the return of loadToken to the end of the run the trimmed content
\* of the token file is the token loadToken returned, which every song fetch
\* sends; the loop never writes the file, also after a 401.
C10_TokenFileIsToken ==
    /\ [](Returned => /\ tokenFile.exists
                      /\ Trim(tokenFile.content) = token
                      /\ \A i \in SongFetches : fetches[i].token = token)
    /\ [][Returned => (tokenFile' = tokenFile /\ tokenWrites' = tokenWrites
                        /\ token' = token)]_vars

\* a run whose token was entered with blanks around it, and whose loop ended
\* on a 401, has ended
C10_Witness ==
    /\ pc = "done"
    /\ AuthFailures # {}
    /\ ltToken # token
    /\ token # <<>>

====
